---- MODULE Spec2Model ----
(***************************************************************************)
(* A model of hotel_analysis_dashboard.py: the loader/normaliser           *)
(* (extract_price, load_data) and one run of main (widgets, inclusion      *)
(* mask, search view, statistics, top-rated table, charts).                *)
(*                                                                         *)
(* Text is a sequence of one-character strings.  A float is modelled in    *)
(* fixed point, as an integer number of Unit-ths; NaN (pandas' missing     *)
(* value, also what a None cell becomes) is the value -1, and every        *)
(* comparison with NaN is false, as in IEEE arithmetic.                    *)
(***************************************************************************)
EXTENDS Integers, Sequences, FiniteSets, TLC

\* Longest raw price string that is enumerated.
MaxPriceLen == 4
\* Most rows of a table of the general input family.
MaxRows == 3
\* Most rows of a table of the ranking input family.
MaxRankRows == 6

RECURSIVE Pow10(_)
Pow10(n) == IF n = 0 THEN 1 ELSE 10 * Pow10(n - 1)

\* One unit of the fixed-point floats: every numeral of at most MaxPriceLen
\* characters is an exact multiple of 1/Unit.
Unit == Pow10(MaxPriceLen - 1)

NaN == -1
Null == <<"null">>

Digits == {"0", "1", "2", "3", "4", "5", "6", "7", "8", "9"}

DigitVal(c) ==
    CASE c = "0" -> 0 [] c = "1" -> 1 [] c = "2" -> 2 [] c = "3" -> 3
      [] c = "4" -> 4 [] c = "5" -> 5 [] c = "6" -> 6 [] c = "7" -> 7
      [] c = "8" -> 8 [] c = "9" -> 9

RECURSIVE DigitsToNat(_)
DigitsToNat(s) ==
    IF s = <<>> THEN 0
    ELSE 10 * DigitsToNat(SubSeq(s, 1, Len(s) - 1)) + DigitVal(s[Len(s)])

\* str.replace(old, ""): the text without the character old.
Remove(s, old) == SelectSeq(s, LAMBDA c : c # old)

Count(s, ch) == Len(SelectSeq(s, LAMBDA c : c = ch))

\* Whether float(s) succeeds, for text without sign, exponent or blanks.
IsFloatLiteral(s) ==
    /\ \A i \in 1..Len(s) : s[i] \in Digits \cup {"."}
    /\ Count(s, ".") <= 1
    /\ \E i \in 1..Len(s) : s[i] \in Digits

\* The position of the decimal point, Len(s) + 1 when there is none.
DotPos(s) ==
    IF \E i \in 1..Len(s) : s[i] = "."
    THEN CHOOSE i \in 1..Len(s) : s[i] = "."
    ELSE Len(s) + 1

\* float(s) of a float literal, in Unit-ths.
FloatValue(s) ==
    LET d == DotPos(s)
        whole == SubSeq(s, 1, d - 1)
        frac == SubSeq(s, d + 1, Len(s))
    IN DigitsToNat(whole) * Unit + (DigitsToNat(frac) * Unit) \div Pow10(Len(frac))

\* re.findall(pattern, s)[0] for a pattern that is one character class
\* repeated: the first maximal run of characters of class, the empty text
\* when findall returns no match.
FirstRun(s, class) ==
    LET in(i) == s[i] \in class
    IN IF \A i \in 1..Len(s) : ~in(i) THEN <<>>
       ELSE LET b == CHOOSE i \in 1..Len(s) : in(i) /\ \A j \in 1..(i - 1) : ~in(j)
                e == CHOOSE i \in b..Len(s) :
                        /\ \A j \in b..i : in(j)
                        /\ (i = Len(s) \/ ~in(i + 1))
            IN SubSeq(s, b, e)

\* extract_price with the pattern \d+ in place of [\d.]+.
extract_price_digits(price_str) ==
    IF price_str = Null \/ price_str = <<>> THEN NaN
    ELSE LET cleaned == Remove(Remove(price_str, "₹"), ",")
             run == FirstRun(cleaned, Digits)
         IN IF run = <<>> THEN NaN ELSE FloatValue(run)

\* extract_price: None (NaN once in the column) for an absent or empty
\* price, for one without a match, and for a match float() rejects
\* (the ValueError is caught).
extract_price(price_str) ==
    IF price_str = Null \/ price_str = <<>> THEN NaN
    ELSE LET cleaned == Remove(Remove(price_str, "₹"), ",")
             run == FirstRun(cleaned, Digits \cup {"."})
         IN IF run = <<>> THEN NaN
            ELSE IF IsFloatLiteral(run) THEN FloatValue(run)
            ELSE NaN

\* format_currency: "N/A" for NaN, else the amount to two decimals (in
\* hundredths, rounded half up).
format_currency(amount) ==
    IF amount = NaN THEN <<"N/A">>
    ELSE <<"amount", (amount * 100 + Unit \div 2) \div Unit>>

\* IEEE comparisons: false when either side is NaN.
Geq(a, b) == a # NaN /\ b # NaN /\ a >= b
Leq(a, b) == a # NaN /\ b # NaN /\ a <= b

\* int(x) of a float x >= 0, and float(n) of an int n.
IntOf(x) == x \div Unit
FloatOf(n) == n * Unit

Range(s) == {s[i] : i \in 1..Len(s)}

\* pd.to_numeric(..., errors="coerce") on one cell: the number, NaN for
\* null and for text that is no number.
to_numeric(raw) ==
    IF raw = Null THEN NaN
    ELSE IF IsFloatLiteral(raw) THEN FloatValue(raw)
    ELSE NaN

\* .str.replace(",", "") on one cell that holds text.
reviews_cleaned(raw) == Remove(raw, ",")

\* Whether .astype(float) raises ValueError on the column: some cell holds
\* text that float() rejects (null cells are NaN after .str and convert).
reviews_raises(rows) ==
    \E i \in 1..Len(rows) :
        /\ rows[i].reviews # Null
        /\ ~IsFloatLiteral(reviews_cleaned(rows[i].reviews))

reviews_value(raw) ==
    IF raw = Null THEN NaN ELSE FloatValue(reviews_cleaned(raw))

\* .fillna("").apply(lambda x: x if isinstance(x, list) else []).
amenities_value(raw) == IF raw.isList THEN raw.items ELSE <<>>

\* One row of the table load_data returns.
normalise(row) ==
    [name |-> row.name,
     rating |-> to_numeric(row.rating),
     reviews |-> reviews_value(row.reviews),
     price |-> row.price,
     price_numeric |-> extract_price(row.price),
     amenities |-> amenities_value(row.amenities)]

\* Whether load_data raises inside its try block: no file, invalid JSON, a
\* table without one of the columns it reads (an empty array has none), or
\* a reviews cell that does not convert.
load_raises(f) ==
    \/ f.kind # "ok"
    \/ f.rows = <<>>
    \/ reviews_raises(f.rows)

\* load_data's return value: None after the caught exception, else the
\* table.
load_data(f) ==
    IF load_raises(f) THEN [none |-> TRUE, rows |-> <<>>]
    ELSE [none |-> FALSE, rows |-> [i \in 1..Len(f.rows) |-> normalise(f.rows[i])]]

VARIABLES
    file,               \* the content of data/google_maps_data.json
    pc,                 \* the position of main
    df,                 \* load_data's return value
    errors,             \* the st.error messages shown
    widgets,            \* the input widgets created
    price_range,        \* the price slider's value
    rating_range,       \* the rating slider's value
    selected_amenities, \* the multiselect's value
    df_filtered,        \* the row numbers of df[mask], in table order
    search_query,       \* the text input's value
    search_results,     \* the row numbers of the search view
    rating_metric,      \* the text of the "Average Rating" metric
    total_hotels,       \* the number in the "Total Hotels" metric
    price_metric,       \* the text of the "Median Price" metric
    top_hotels,         \* the row numbers of the top-rated table, in order
    amenity_chart,      \* the (amenity, count) pairs of the bar chart
    scatter,            \* the row numbers plotted in the scatter chart
    produced,           \* the outputs computed so far in this run
    price_str,          \* the argument of a direct extract_price call
    price_out           \* the value that call returned

vars == <<file, pc, df, errors, widgets, price_range, rating_range,
          selected_amenities, df_filtered, search_query, search_results,
          rating_metric, total_hotels, price_metric, top_hotels,
          amenity_chart, scatter, produced, price_str, price_out>>

Unset == <<"unset">>

\* The number of rows of the top-rated table (nlargest(5, "rating")).
TopN == 5
\* The number of bars of the amenity chart (tail(10)).
ChartN == 10

Rows == IF df.none THEN {} ELSE 1..Len(df.rows)

\* df["price_numeric"].dropna() and df["rating"].dropna(), as the sets of
\* their values.
valid_prices == {df.rows[i].price_numeric : i \in Rows} \ {NaN}
valid_ratings == {df.rows[i].rating : i \in Rows} \ {NaN}

Min(S) == CHOOSE x \in S : \A y \in S : x <= y
Max(S) == CHOOSE x \in S : \A y \in S : x >= y

\* get_unique_amenities, as a set.
get_unique_amenities == UNION {Range(df.rows[i].amenities) : i \in Rows}

\* The initial value of the price slider.
price_default == <<IntOf(Min(valid_prices)), IntOf(Max(valid_prices))>>

\* The initial value of the rating slider; (nan, nan) when no rating is
\* present, as min() and max() of an empty column are NaN.
rating_default ==
    IF valid_ratings = {} THEN <<NaN, NaN>>
    ELSE <<Min(valid_ratings), Max(valid_ratings)>>

\* The values the model lets the user drag the price slider to: whole
\* numbers between the slider's ends.
price_choices ==
    LET lo == IntOf(Min(valid_prices))
        hi == IntOf(Max(valid_prices))
        stops == {n \in {IntOf(p) : p \in valid_prices} : lo <= n /\ n <= hi}
    IN {r \in stops \X stops : r[1] <= r[2]}

\* The values the model lets the user drag the rating slider to: ratings of
\* the table that lie a whole number of 0.1 steps above the lowest one, and
\* the initial value.
rating_choices ==
    IF valid_ratings = {} THEN {rating_default}
    ELSE LET lo == Min(valid_ratings)
             stops == {v \in valid_ratings : (v - lo) % (Unit \div 10) = 0}
         IN {r \in stops \X stops : r[1] <= r[2]} \cup {rating_default}

\* The price term applied to every table: a row needs a price even when
\* no row has one.
price_pass_notna(i) ==
    /\ df.rows[i].price_numeric # NaN
    /\ valid_prices # {} =>
          /\ Geq(df.rows[i].price_numeric, FloatOf(price_range[1]))
          /\ Leq(df.rows[i].price_numeric, FloatOf(price_range[2]))

\* The price term with rows without a price let through.
price_pass_or_missing(i) ==
    IF valid_prices # {}
    THEN \/ df.rows[i].price_numeric = NaN
         \/ /\ Geq(df.rows[i].price_numeric, FloatOf(price_range[1]))
            /\ Leq(df.rows[i].price_numeric, FloatOf(price_range[2]))
    ELSE TRUE

\* The price term of the mask, skipped when no price is valid.
price_pass(i) ==
    IF valid_prices # {}
    THEN /\ Geq(df.rows[i].price_numeric, FloatOf(price_range[1]))
         /\ Leq(df.rows[i].price_numeric, FloatOf(price_range[2]))
    ELSE TRUE

\* The rating term of the mask.
rating_pass(i) ==
    /\ Geq(df.rows[i].rating, rating_range[1])
    /\ Leq(df.rows[i].rating, rating_range[2])

\* The amenity term with any() in place of all().
amenity_pass_any(i) ==
    IF selected_amenities # {}
    THEN \E a \in selected_amenities : a \in Range(df.rows[i].amenities)
    ELSE TRUE

\* The amenity term of the mask, applied when something is selected.
amenity_pass(i) ==
    IF selected_amenities # {}
    THEN \A a \in selected_amenities : a \in Range(df.rows[i].amenities)
    ELSE TRUE

mask(i) == price_pass(i) /\ rating_pass(i) /\ amenity_pass(i)

\* The members of a set of row numbers, in table order.
RECURSIVE InOrder(_)
InOrder(S) ==
    IF S = {} THEN <<>>
    ELSE LET m == Min(S) IN <<m>> \o InOrder(S \ {m})

Lower(c) ==
    CASE c = "A" -> "a" [] c = "B" -> "b" [] c = "C" -> "c" [] OTHER -> c

\* Whether re.compile(query) raises: an opening parenthesis that nothing
\* closes.
regex_raises(query) ==
    \E i \in 1..Len(query) :
        query[i] = "(" /\ \A j \in (i + 1)..Len(query) : query[j] # ")"

\* re.search(query, name, re.IGNORECASE) for a pattern of literals and ".":
\* "." matches any character.
regex_search(query, name) ==
    \E k \in 0..(Len(name) - Len(query)) :
        \A j \in 1..Len(query) :
            query[j] = "." \/ Lower(query[j]) = Lower(name[k + j])

\* One cell of str.contains(query, case=False, na=False); regex=True is
\* the default.
name_matches(query, name) == name # Null /\ regex_search(query, name)

RECURSIVE Sum(_, _)
Sum(f, S) ==
    IF S = {} THEN 0
    ELSE LET x == CHOOSE y \in S : TRUE IN f[x] + Sum(f, S \ {x})

\* Series.mean(): NaN cells skipped, NaN when nothing is left.
mean(values) ==
    LET present == {i \in DOMAIN values : values[i] # NaN}
    IN IF present = {} THEN NaN ELSE Sum(values, present) \div Cardinality(present)

\* The cells of a column in ascending order, NaN cells dropped.
RECURSIVE Ascending(_, _)
Ascending(values, S) ==
    IF S = {} THEN <<>>
    ELSE LET m == CHOOSE i \in S : \A j \in S : values[i] <= values[j]
         IN <<values[m]>> \o Ascending(values, S \ {m})

\* Series.median(): NaN cells skipped, NaN when nothing is left, the mean
\* of the two middle cells when their number is even.
median(values) ==
    LET present == {i \in DOMAIN values : values[i] # NaN}
        sorted == Ascending(values, present)
        n == Len(sorted)
    IN IF n = 0 THEN NaN
       ELSE IF n % 2 = 1 THEN sorted[(n + 1) \div 2]
       ELSE (sorted[n \div 2] + sorted[n \div 2 + 1]) \div 2

\* f"{avg_rating:.1f} / 5.0": the text "nan" for NaN, else the rating in
\* tenths, rounded half up.
rating_text(avg) ==
    IF avg = NaN THEN <<"nan">>
    ELSE <<"rating", (avg * 10 + Unit \div 2) \div Unit>>

\* The rows of S by rating, highest first, equal ratings in table order.
RECURSIVE Descending(_)
Descending(S) ==
    IF S = {} THEN <<>>
    ELSE LET m == CHOOSE i \in S :
                    \A j \in S : \/ df.rows[i].rating > df.rows[j].rating
                                 \/ df.rows[i].rating = df.rows[j].rating /\ i <= j
         IN <<m>> \o Descending(S \ {m})

FirstN(s, n) == SubSeq(s, 1, IF Len(s) < n THEN Len(s) ELSE n)

\* nsmallest in place of nlargest: the n rows of lowest rating.
nsmallest(n, filtered) ==
    LET d == Descending({i \in Range(filtered) : df.rows[i].rating # NaN})
    IN FirstN([k \in 1..Len(d) |-> d[Len(d) + 1 - k]], n)

\* df_filtered.nlargest(n, "rating"), keep="first": the n rows of highest
\* rating, highest first; rows without a rating are not ranked.
nlargest(n, filtered) ==
    FirstN(Descending({i \in Range(filtered) : df.rows[i].rating # NaN}), n)

\* amenity_counts: the number of occurrences of a label in the amenity
\* lists of the filtered rows.
amenity_count(label, filtered) ==
    Sum([i \in Range(filtered) |-> Count(df.rows[i].amenities, label)], Range(filtered))

amenity_labels(filtered) == UNION {Range(df.rows[i].amenities) : i \in Range(filtered)}

\* The charts that sort_values("Count").tail(ChartN) can give: ChartN
\* labels (all of them when there are fewer), none left out that counts
\* more than one kept.
amenity_charts(filtered) ==
    LET labels == amenity_labels(filtered)
        size == IF Cardinality(labels) < ChartN THEN Cardinality(labels) ELSE ChartN
    IN {{<<a, amenity_count(a, filtered)>> : a \in K} :
            K \in {K \in SUBSET labels :
                      /\ Cardinality(K) = size
                      /\ \A a \in K, b \in labels \ K :
                            amenity_count(a, filtered) >= amenity_count(b, filtered)}}

\* dropna(subset=["price_numeric", "rating"]).
valid_data(filtered) ==
    SelectSeq(filtered, LAMBDA i : df.rows[i].price_numeric # NaN /\ df.rows[i].rating # NaN)

\* Whether rendering the expander of row i raises: int() of a NaN review
\* count.
render_raises(i) == df.rows[i].reviews = NaN

(***************************************************************************)
(* The inputs.                                                             *)
(***************************************************************************)
Row(name, rating, reviews, price, amenities) ==
    [name |-> name, rating |-> rating, reviews |-> reviews, price |-> price,
     amenities |-> amenities]

List(items) == [isList |-> TRUE, items |-> items]
NotAList == [isList |-> FALSE, items |-> <<>>]

\* The rows the tables of the general family are made of: every kind of
\* cell the loader tells apart, prices with and without a fraction.
RowSamples ==
    { Row(<<"a", "b">>, <<"4", ".", "5">>, <<"1", ",", "5">>, <<"₹", "1", "5">>,
          List(<<"wifi", "pool">>)),
      Row(<<"A", "c">>, <<"3">>, <<"1", ",", "5">>, <<"₹", "5", ".", "5">>,
          List(<<"wifi">>)),
      Row(<<"b", ".">>, <<"5">>, Null, <<"1", "5", ".", "5">>, List(<<>>)),
      Row(<<"a", "b">>, <<"x">>, <<"1", ",", "5">>, <<"x">>, NotAList),
      Row(<<"c">>, <<"4", ".", "5">>, <<"x">>, <<"₹", "5">>, List(<<"pool">>)),
      Row(Null, Null, <<"1", "5">>, <<>>, List(<<"pool">>)),
      Row(<<"a">>, <<"4", ".", "5">>, <<"1", ",", "5">>, Null,
          List(<<"wifi", "pool">>)),
      Row(<<"A", "b">>, <<"3">>, <<"1", ",", "5">>, <<"x">>, List(<<"wifi">>)) }

RECURSIVE SeqsUpTo(_, _)
SeqsUpTo(S, n) ==
    IF n = 0 THEN {<<>>}
    ELSE LET shorter == SeqsUpTo(S, n - 1)
         IN shorter \cup {Append(s, x) : s \in shorter, x \in S}

\* The files of the general family: the ones load_data cannot read, and
\* the tables of at most MaxRows rows.
GeneralFiles ==
    {[kind |-> k, rows |-> <<>>] : k \in {"nofile", "badjson", "nocolumn"}}
    \cup {[kind |-> "ok", rows |-> t] : t \in SeqsUpTo(RowSamples, MaxRows)}

\* The rows of the ranking family differ in their rating alone.
RankRow(rating) == Row(<<"a", "b">>, rating, <<"1", "5">>, <<"₹", "1", "5">>, List(<<>>))

RankRows == {RankRow(r) : r \in {<<"3">>, <<"4", ".", "5">>, <<"5">>}}

\* The table of ratings 4.9, 4.9, 4.2, 3.0, 5.0, 4.5, 4.1.
ExampleTable ==
    << RankRow(<<"4", ".", "9">>), RankRow(<<"4", ".", "9">>), RankRow(<<"4", ".", "2">>),
       RankRow(<<"3", ".", "0">>), RankRow(<<"5", ".", "0">>), RankRow(<<"4", ".", "5">>),
       RankRow(<<"4", ".", "1">>) >>

RankFiles ==
    {[kind |-> "ok", rows |-> t] : t \in SeqsUpTo(RankRows, MaxRankRows) \cup {ExampleTable}}
    \cup {[kind |-> "nofile", rows |-> <<>>]}

\* What the user types into the search box.
QuerySamples == {<<>>, <<"B">>, <<"a", ".">>, <<"(">>}

\* The characters of the enumerated price strings; "x" stands for any
\* character that is no digit, dot, comma or rupee sign.
PriceChars == {"₹", ",", ".", "0", "1", "5", "x"}

PriceStrings == SeqsUpTo(PriceChars, MaxPriceLen) \cup {Null}

(***************************************************************************)
(* One run of main.                                                        *)
(***************************************************************************)
Fresh(f, at, p) ==
    /\ file = f
    /\ pc = at
    /\ price_str = p
    /\ df = [none |-> TRUE, rows |-> <<>>]
    /\ errors = <<>>
    /\ widgets = {}
    /\ price_range = Unset
    /\ rating_range = Unset
    /\ selected_amenities = {}
    /\ df_filtered = <<>>
    /\ search_query = <<>>
    /\ search_results = <<>>
    /\ rating_metric = Unset
    /\ total_hotels = 0
    /\ price_metric = Unset
    /\ top_hotels = <<>>
    /\ amenity_chart = {}
    /\ scatter = <<>>
    /\ produced = {}
    /\ price_out = NaN

Start(f) == Fresh(f, "load", Null)

Init == \E f \in GeneralFiles : Start(f)

InitRank == \E f \in RankFiles : Start(f)

\* df = load_data(): the exception of a failed load is caught and shown.
LoadData ==
    /\ pc = "load"
    /\ df' = load_data(file)
    /\ errors' = IF load_raises(file) THEN Append(errors, "Error loading data") ELSE errors
    /\ pc' = "loaded"
    /\ UNCHANGED <<file, widgets, price_range, rating_range, selected_amenities,
                   df_filtered, search_query, search_results, rating_metric,
                   total_hotels, price_metric, top_hotels, amenity_chart, scatter,
                   produced, price_str, price_out>>

\* main without the return after a failed load.
CheckLoaded_continue ==
    /\ pc = "loaded"
    /\ errors' = IF df.none \/ Len(df.rows) = 0
                 THEN Append(errors, "Unable to load hotel data") ELSE errors
    /\ pc' = "sidebar"
    /\ UNCHANGED <<file, df, widgets, price_range, rating_range, selected_amenities,
                   df_filtered, search_query, search_results, rating_metric,
                   total_hotels, price_metric, top_hotels, amenity_chart, scatter,
                   produced, price_str, price_out>>

\* if df is None or len(df) == 0: st.error(...); return
CheckLoaded ==
    /\ pc = "loaded"
    /\ IF df.none \/ Len(df.rows) = 0
       THEN /\ errors' = Append(errors, "Unable to load hotel data")
            /\ pc' = "done"
       ELSE /\ errors' = errors
            /\ pc' = "sidebar"
    /\ UNCHANGED <<file, df, widgets, price_range, rating_range, selected_amenities,
                   df_filtered, search_query, search_results, rating_metric,
                   total_hotels, price_metric, top_hotels, amenity_chart, scatter,
                   produced, price_str, price_out>>

\* The sidebar: the price slider when some price is valid, the rating
\* slider, the amenity multiselect, each returning the value the user has
\* set (the initial one on the first run).  When no rating is present the
\* rating slider is given NaN bounds, which the source does not guard
\* against: the call may return (nan, nan) or raise, and a raise ends the
\* run before the multiselect.
Sidebar ==
    /\ pc = "sidebar"
    /\ IF valid_prices # {}
       THEN price_range' \in price_choices
       ELSE price_range' = price_range
    /\ \E raised \in {b \in BOOLEAN : b => valid_ratings = {}} :
          IF raised
          THEN /\ rating_range' = rating_range
               /\ selected_amenities' = selected_amenities
               /\ widgets' = widgets \cup
                     (IF valid_prices # {} THEN {"price"} ELSE {})
               /\ pc' = "crashed"
          ELSE /\ rating_range' \in rating_choices
               /\ selected_amenities' \in SUBSET get_unique_amenities
               /\ widgets' = widgets \cup {"rating", "amenities"} \cup
                     (IF valid_prices # {} THEN {"price"} ELSE {})
               /\ pc' = "filter"
    /\ UNCHANGED <<file, df, errors, df_filtered, search_query, search_results,
                   rating_metric, total_hotels, price_metric, top_hotels,
                   amenity_chart, scatter, produced, price_str, price_out>>

\* The mask and df_filtered = df[mask].
ApplyFilters ==
    /\ pc = "filter"
    /\ df_filtered' = InOrder({i \in Rows : mask(i)})
    /\ produced' = produced \cup {"mask"}
    /\ pc' = "search"
    /\ UNCHANGED <<file, df, errors, widgets, price_range, rating_range,
                   selected_amenities, search_query, search_results, rating_metric,
                   total_hotels, price_metric, top_hotels, amenity_chart, scatter,
                   price_str, price_out>>

\* The search box and, for a query, the search view.  An exception (the
\* query is no regular expression, a result has no review count) ends the
\* run.
Search ==
    /\ pc = "search"
    /\ \E q \in QuerySamples :
          /\ search_query' = q
          /\ IF q = <<>>
             THEN /\ search_results' = search_results
                  /\ produced' = produced
                  /\ pc' = "stats"
             ELSE IF regex_raises(q)
             THEN /\ search_results' = search_results
                  /\ produced' = produced
                  /\ pc' = "crashed"
             ELSE LET found == SelectSeq(df_filtered,
                                         LAMBDA i : name_matches(q, df.rows[i].name))
                  IN /\ search_results' = found
                     /\ produced' = produced \cup {"search"}
                     /\ pc' = IF \E i \in Range(found) : render_raises(i)
                              THEN "crashed" ELSE "stats"
    /\ widgets' = widgets \cup {"search"}
    /\ UNCHANGED <<file, df, errors, price_range, rating_range, selected_amenities,
                   df_filtered, rating_metric, total_hotels, price_metric,
                   top_hotels, amenity_chart, scatter, price_str, price_out>>

\* The three metrics.
Stats ==
    /\ pc = "stats"
    /\ rating_metric' =
          rating_text(mean([i \in Range(df_filtered) |-> df.rows[i].rating]))
    /\ total_hotels' = Len(df_filtered)
    /\ price_metric' =
          format_currency(median([i \in Range(df_filtered) |-> df.rows[i].price_numeric]))
    /\ produced' = produced \cup {"stats"}
    /\ pc' = "top"
    /\ UNCHANGED <<file, df, errors, widgets, price_range, rating_range,
                   selected_amenities, df_filtered, search_query, search_results,
                   top_hotels, amenity_chart, scatter, price_str, price_out>>

\* The top-rated table.
TopHotels ==
    /\ pc = "top"
    /\ top_hotels' = nlargest(TopN, df_filtered)
    /\ produced' = produced \cup {"top"}
    /\ pc' = "charts"
    /\ UNCHANGED <<file, df, errors, widgets, price_range, rating_range,
                   selected_amenities, df_filtered, search_query, search_results,
                   rating_metric, total_hotels, price_metric, amenity_chart, scatter,
                   price_str, price_out>>

\* The amenity bar chart and the price/rating scatter chart.
Charts ==
    /\ pc = "charts"
    /\ amenity_chart' \in amenity_charts(df_filtered)
    /\ scatter' = valid_data(df_filtered)
    /\ produced' = produced \cup {"charts"}
    /\ pc' = "done"
    /\ UNCHANGED <<file, df, errors, widgets, price_range, rating_range,
                   selected_amenities, df_filtered, search_query, search_results,
                   rating_metric, total_hotels, price_metric, top_hotels,
                   price_str, price_out>>

Next ==
    \/ LoadData
    \/ CheckLoaded
    \/ Sidebar
    \/ ApplyFilters
    \/ Search
    \/ Stats
    \/ TopHotels
    \/ Charts

Spec == Init /\ [][Next]_vars

SpecRank == InitRank /\ [][Next]_vars

(***************************************************************************)
(* extract_price called on its own, on every price string of at most       *)
(* MaxPriceLen characters.                                                 *)
(***************************************************************************)
InitPrice ==
    \E p \in PriceStrings : Fresh([kind |-> "nofile", rows |-> <<>>], "call", p)

ExtractPrice ==
    /\ pc = "call"
    /\ price_out' = extract_price(price_str)
    /\ pc' = "returned"
    /\ UNCHANGED <<file, df, errors, widgets, price_range, rating_range,
                   selected_amenities, df_filtered, search_query, search_results,
                   rating_metric, total_hotels, price_metric, top_hotels,
                   amenity_chart, scatter, produced, price_str>>

NextPrice == ExtractPrice

SpecPrice == InitPrice /\ [][NextPrice]_vars

(***************************************************************************)
(* The claims.                                                             *)
(***************************************************************************)
Filtered == Range(df_filtered)

\* What the claims call a value that parses: a numeral for a rating, a
\* numeral once its commas are removed for a review count, some digit for
\* a price.
IsNumeral(t) ==
    /\ t # Null
    /\ \A i \in 1..Len(t) : t[i] \in Digits \cup {"."}
    /\ Count(t, ".") <= 1
    /\ \E i \in 1..Len(t) : t[i] \in Digits

HasDigit(t) == t # Null /\ \E i \in 1..Len(t) : t[i] \in Digits

\* The text without its rupee signs and commas.
Cleaned(t) == SelectSeq(t, LAMBDA c : c \notin {"₹", ","})

\* The first contiguous numeral (integer or decimal) of a text that has a
\* digit: the longest numeral that starts where the leftmost one starts.
FirstNumeral(t) ==
    LET starts == {b \in 1..Len(t) : \E e \in b..Len(t) : IsNumeral(SubSeq(t, b, e))}
        b == Min(starts)
        e == Max({e \in b..Len(t) : IsNumeral(SubSeq(t, b, e))})
    IN SubSeq(t, b, e)

\* C1: a rating, review count or price that does not parse never fails the
\* load: the table has every record, the field that does not parse is
\* missing, every field that parses has its value.
C1_ParseFailuresNeverFailLoad ==
    (pc # "load" /\ file.kind = "ok" /\ file.rows # <<>>) =>
        /\ ~df.none
        /\ Len(df.rows) = Len(file.rows)
        /\ \A i \in 1..Len(file.rows) :
              LET raw == file.rows[i]
                  reviews == Remove(raw.reviews, ",")
              IN /\ df.rows[i].rating =
                       IF IsNumeral(raw.rating) THEN FloatValue(raw.rating) ELSE NaN
                 /\ df.rows[i].reviews =
                       IF raw.reviews # Null /\ IsNumeral(reviews)
                       THEN FloatValue(reviews) ELSE NaN
                 /\ ~HasDigit(raw.price) => df.rows[i].price_numeric = NaN

\* C2: after a failed load the failure has been reported and main has
\* stopped: no widget is created, no mask computed, no statistic, table,
\* search result or chart produced.
C2_FailedLoadStopsMain ==
    (pc # "load" /\ df.none) =>
        /\ pc \in {"loaded", "done"}
        /\ errors # <<>> /\ errors[1] = "Error loading data"
        /\ widgets = {}
        /\ produced = {}
        /\ price_range = Unset /\ rating_range = Unset
        /\ rating_metric = Unset /\ price_metric = Unset
        /\ df_filtered = <<>> /\ search_results = <<>> /\ top_hotels = <<>>
        /\ amenity_chart = {} /\ scatter = <<>>

C2_Witness ==
    /\ pc = "done"
    /\ file.kind = "badjson"
    /\ errors = <<"Error loading data", "Unable to load hotel data">>

\* C3: on an empty filtered set the mean rating and the median price are
\* each shown as a "no data" text, not as a number and not as not-a-number.
C3_EmptySetShowsNoData ==
    ("stats" \in produced /\ df_filtered = <<>>) =>
        /\ rating_metric = <<"N/A">>
        /\ price_metric = <<"N/A">>

\* C4: extract_price returns missing, or the value (never negative) of the
\* first contiguous numeral of the price without its rupee signs and
\* commas; a price that is absent, empty or has no digit gives missing.
C4_PriceIsFirstNumeral ==
    pc = "returned" =>
        /\ \/ price_out = NaN
           \/ /\ price_out >= 0
              /\ HasDigit(price_str)
              /\ price_out = FloatValue(FirstNumeral(Cleaned(price_str)))
        /\ ~HasDigit(price_str) => price_out = NaN

C4_Witness ==
    /\ pc = "returned"
    /\ price_str = <<"₹", "5", ".", "5">>
    /\ price_out = 5 * Unit + Unit \div 2

\* C5: when no record has a parseable price, a record is in the filtered
\* set exactly when its rating is in the rating range and it has every
\* required amenity.
C5_NoPriceNoPriceFilter ==
    ("mask" \in produced /\ \A i \in Rows : df.rows[i].price_numeric = NaN) =>
        \A i \in Rows :
            i \in Filtered <=>
                /\ df.rows[i].rating # NaN
                /\ rating_range[1] <= df.rows[i].rating
                /\ df.rows[i].rating <= rating_range[2]
                /\ selected_amenities \subseteq Range(df.rows[i].amenities)

C5_Witness ==
    /\ "mask" \in produced
    /\ \A i \in Rows : df.rows[i].price_numeric = NaN
    /\ Filtered # {}
    /\ \E i \in Rows \ Filtered : df.rows[i].rating # NaN

\* C6: a record that passes the price and rating terms is in the filtered
\* set exactly when its amenity list has every required label; with
\* nothing required every such record is in.
C6_AmenitySuperset ==
    "mask" \in produced =>
        \A i \in Rows :
            (price_pass(i) /\ rating_pass(i)) =>
                (i \in Filtered <=> selected_amenities \subseteq Range(df.rows[i].amenities))

C6_Witness ==
    /\ "mask" \in produced
    /\ selected_amenities = {"wifi", "pool"}
    /\ \E i \in Filtered : Range(df.rows[i].amenities) = {"wifi", "pool"}
    /\ \E i \in Rows \ Filtered :
          /\ price_pass(i) /\ rating_pass(i)
          /\ Range(df.rows[i].amenities) = {"wifi"}

\* C7: the top-rated table holds min(TopN, n) distinct records of the n
\* filtered ones, in descending rating order, and no record left out is
\* rated higher than one in the table.
C7_TopRated ==
    "top" \in produced =>
        LET n == Len(df_filtered)
            rating(k) == df.rows[top_hotels[k]].rating
        IN /\ Len(top_hotels) = IF n < TopN THEN n ELSE TopN
           /\ Range(top_hotels) \subseteq Filtered
           /\ Cardinality(Range(top_hotels)) = Len(top_hotels)
           /\ \A k \in 1..(Len(top_hotels) - 1) : rating(k) >= rating(k + 1)
           /\ \A i \in Filtered \ Range(top_hotels) :
                 \A k \in 1..Len(top_hotels) : ~(df.rows[i].rating > rating(k))

C7_Witness ==
    /\ "top" \in produced
    /\ file.rows = ExampleTable
    /\ Len(df_filtered) = 7
    /\ top_hotels = <<5, 1, 2, 6, 3>>

\* Whether name contains query, letter case ignored.
ContainsIgnoreCase(query, name) ==
    /\ name # Null
    /\ \E k \in 0..(Len(name) - Len(query)) :
          \A j \in 1..Len(query) : Lower(query[j]) = Lower(name[k + j])

\* C8: a name query changes the search view alone: the run goes on to the
\* statistics of the filtered set, and the search results are the filtered
\* records whose name contains the query, letter case ignored.
C8_SearchIsSubstringFilter ==
    (search_query # <<>> /\ pc \notin {"load", "loaded", "sidebar", "filter", "search"}) =>
        /\ pc # "crashed"
        /\ search_results =
              SelectSeq(df_filtered,
                        LAMBDA i : ContainsIgnoreCase(search_query, df.rows[i].name))

\* C9: with both sliders at their initial values and no amenity selected,
\* every record with a parseable price and a rating is in the filtered set.
C9_DefaultsKeepEveryRecord ==
    ( /\ "mask" \in produced
      /\ valid_prices # {} => price_range = price_default
      /\ rating_range = rating_default
      /\ selected_amenities = {} ) =>
        \A i \in Rows :
            (df.rows[i].price_numeric # NaN /\ df.rows[i].rating # NaN) => i \in Filtered

\* C10: when some record has a parseable price, no record without one is
\* in the filtered set, nor in anything computed from it.
C10_MissingPriceExcluded ==
    ("mask" \in produced /\ \E i \in Rows : df.rows[i].price_numeric # NaN) =>
        \A i \in Filtered \cup Range(search_results) \cup Range(top_hotels)
                 \cup Range(scatter) :
            df.rows[i].price_numeric # NaN

C10_Witness ==
    /\ "mask" \in produced
    /\ valid_prices # {}
    /\ price_range = price_default
    /\ selected_amenities = {}
    /\ Filtered # {}
    /\ \E i \in Rows \ Filtered :
          /\ df.rows[i].price_numeric = NaN
          /\ rating_pass(i)

====
